---- MODULE Spec2Model ----
(***************************************************************************)
(* The Scraping Stage of the YouTube orchestrator                          *)
(* (scripts/youtube_orchestrator.py, ResilientOrchestrator.run_scraping)   *)
(* with the checkpoint helpers of scripts/youtube_channel_scraper.py.      *)
(*                                                                         *)
(* Disk: the queue file (qfile), the global progress file (pfile), the     *)
(* output directory (artifacts) and the orchestration state file           *)
(* (state_file).  Memory: queue_data, progress, state and the locals of    *)
(* run_scraping.  Loop indices and current_index are 0-based as in the     *)
(* code; channels[i + 1] is the code's channels[i].                        *)
(***************************************************************************)
EXTENDS Integers, Sequences, FiniteSets, TLC

VARIABLES
    channels,        \* queue_data['channels'] (never rewritten by the stage)
    env,             \* the outcomes scrape_channel can have in this execution
    runs_allowed,    \* how many invocations of run_scraping the execution makes
    qfile,           \* queue file on disk
    pfile,           \* global progress file on disk
    artifacts,       \* names of the <safe_id>.json files in the output directory
    state_file,      \* orchestration state file on disk
    state,           \* state_manager.state (the part run_scraping touches)
    queue_data,      \* in-memory queue_data
    progress,        \* in-memory progress
    pc,              \* position in run_scraping
    start_index,     \* local 'start_index' (line 373)
    i,               \* loop index
    stats,           \* stats = {'success', 'failed', 'skipped'}
    channels_since_restart,
    attempts,        \* local 'attempts' (line 409)
    channel_data,    \* channel_data['channel_id'] returned by scrape_channel
    browser,         \* "open" / "closed": the scraper's browser session
    run,             \* number of run_scraping invocations started
    kills,           \* number of times the process was killed
    log,             \* external operations done for the entity being handled
    outcomes,        \* position -> outcome of scrape_channel in this invocation
    prev,            \* summary of the previous invocation
    skipped_by_scraper, \* ids for which scrape_channel raised ChannelSkippedException
    rpc,             \* position in main() / run()
    shutdown_requested, \* self.shutdown_requested
    raised,          \* the exception that is propagating out of the stage, if any
    results_status,  \* results['status'] / results['discovery']['status'] of run()
    invocations,     \* number of processes started on the state file
    entry,           \* the persisted state as the process found it
    queue_file,      \* local 'queue_file' of run() / argument of run_scraping
    queries,         \* the search queries built from categories x locations
    found,           \* what the search for each query position returns
    faults,          \* exceptions the environment may still raise in discovery
    dpc,             \* position in run_discovery / discover_channels
    attempt,         \* loop variable of run_discovery
    should_resume,   \* local 'should_resume' of run_discovery
    dprogress,       \* progress_data of discover_channels
    dfiles,          \* discovery progress files on disk, one per session
    qi,              \* loop index of discover_channels
    issued           \* browser sessions and queries started by this process

vars == <<channels, env, runs_allowed, qfile, pfile, artifacts, state_file, state, queue_data,
          progress, pc, start_index, i, stats, channels_since_restart, attempts,
          channel_data, browser, run, kills, log, outcomes, prev, skipped_by_scraper,
          rpc, shutdown_requested, raised, results_status, invocations, entry,
          queue_file, queries, found, faults, dpc, attempt, should_resume,
          dprogress, dfiles, qi, issued>>

----------------------------------------------------------------------------
(* Bounds of the model *)

MaxQueue == 4          \* longest queue explored with every outcome
MaxLongQueue == 7      \* longest queue explored with Success / Exception only
MaxRuns == 4           \* run_scraping invocations on the same queue file
MaxPrior == 1          \* channels already in the global progress file at start
MaxKills == 1          \* kills of the process in one execution
MaxCrashQueue == 2     \* longest queue explored with every outcome and kills
MaxCrashLongQueue == 6 \* longest Success / Exception queue explored with kills
MaxCrashRuns == 4      \* run_scraping invocations when the process can be killed
RestartInterval == 2   \* config['browser_restart_interval'] (default 50), scaled
MaxCooldownAttempt == 20 \* largest attempt number given to _calculate_cooldown
MaxQueries == 2        \* most search queries built from the config
MaxFaults == 2         \* exceptions raised inside the discovery stage per execution
MaxDiscoveryRuns == 2  \* processes started with --discovery-only on one state file
MaxRunQueries == 1     \* most search queries when the whole pipeline is explored
MaxRunFaults == 1      \* discovery exceptions when the whole pipeline is explored
MaxRunInvocations == 4 \* processes started on one state file, whole pipeline
MaxStormInvocations == 2 \* processes started on one state file, long queue
MaxResumeQueries == 3  \* queries of a discover_channels call that resumes

(* Program constants *)

max_channel_retries == 3
cooldown_after_failure == 60
cooldown_multiplier == 2
max_cooldown == 600
BreakerThreshold == 5
BreakerWindow == 10
RestartSleep == 5
BreakerSleep == 30
max_discovery_retries == 5
max_scrape_retries == 3      \* config['max_scrape_retries'], read nowhere

----------------------------------------------------------------------------
(* Identifiers are sequences of characters *)

AllIds == << <<"a">>, <<"b">>, <<"c">>, <<"@", "a">>, <<"d", "/", "e">>,
             <<"f">>, <<"g">>, <<"h">>, <<"k">>, <<"m">>, <<"n">>, <<"p">> >>

NoHandle == <<>>

\* handles the channel page can show: none, or the handle of another entry
PageHandles == {NoHandle, <<"@", "c">>}

Range(s) == {s[k] : k \in DOMAIN s}

\* channel_id.replace('@', '').replace('/', '_').replace('\\', '_')
RECURSIVE SafeId(_)
SafeId(s) ==
    IF s = <<>> THEN <<>>
    ELSE LET c == Head(s)
             r == SafeId(Tail(s))
         IN  IF c = "@" THEN r
             ELSE IF c \in {"/", "\\"} THEN <<"_">> \o r
             ELSE <<c>> \o r

\* channel_identifier.replace('@', '').replace('/', '_')
RECURSIVE StripId(_)
StripId(s) ==
    IF s = <<>> THEN <<>>
    ELSE LET c == Head(s)
             r == StripId(Tail(s))
         IN  IF c = "@" THEN r
             ELSE IF c = "/" THEN <<"_">> \o r
             ELSE <<c>> \o r

\* channel_id = channel_info.get('handle') or channel_identifier.replace(...)
BuildChannelId(channel_identifier, handle) ==
    IF handle # NoHandle THEN handle ELSE StripId(channel_identifier)

\* save_channel_data: the file name the artifact is written under
ArtifactName(data_channel_id) == SafeId(data_channel_id)

\* a completion test that consults the progress file only
is_in_progress_only(channel_id, prog, output_dir) ==
    channel_id \in Range(prog.completed_channels)

\* lines 1341-1350
is_channel_completed(channel_id, prog, output_dir) ==
    \/ channel_id \in Range(prog.completed_channels)
    \/ SafeId(channel_id) \in output_dir

----------------------------------------------------------------------------
(* Retry / backoff policy *)

\* a factor that grows linearly with the attempt number
PowLinear(b, e) == IF e <= 0 THEN 1 ELSE b * e

\* config['cooldown_multiplier'] ** (attempts - 1)
RECURSIVE Pow(_, _)
Pow(b, e) == IF e <= 0 THEN 1 ELSE b * Pow(b, e - 1)

Min(a, b) == IF a <= b THEN a ELSE b
Max(a, b) == IF a >= b THEN a ELSE b

_calculate_cooldown(n) ==
    Min(cooldown_after_failure * Pow(cooldown_multiplier, n - 1), max_cooldown)

\* the backward scan of _check_consecutive_failures: k runs from
\* current_idx - 1 down to (excluding) stop
RECURSIVE ScanFailures(_, _, _, _)
ScanFailures(q, k, stop, consecutive) ==
    IF k <= stop THEN consecutive
    ELSE IF k >= Len(channels) THEN ScanFailures(q, k - 1, stop, consecutive)
    ELSE IF channels[k + 1] \in DOMAIN q.failed
         THEN ScanFailures(q, k - 1, stop, consecutive + 1)
         ELSE consecutive

_check_consecutive_failures(q) ==
    IF DOMAIN q.failed = {} THEN 0
    ELSE ScanFailures(q, q.current_index - 1,
                      Max(0, q.current_index - BreakerWindow), 0)

\* a lookup that finds no failure record
NoFailedAttempts(q, channel_id) == 0

\* queue_data.get('failed', {}).get(channel_id, {}).get('attempts', 0)
FailedAttempts(q, channel_id) ==
    IF channel_id \in DOMAIN q.failed THEN q.failed[channel_id].attempts ELSE 0

\* a failure record that counts every failure twice
RecordFailureTwice(failed, channel_id) ==
    [x \in DOMAIN failed \cup {channel_id} |->
        IF x # channel_id THEN failed[x]
        ELSE [attempts |-> 2 + (IF channel_id \in DOMAIN failed
                                THEN failed[channel_id].attempts ELSE 0)]]

\* _record_channel_failure: the new queue_data['failed']
RecordFailure(failed, channel_id) ==
    IF channel_id \in DOMAIN failed
    THEN [failed EXCEPT ![channel_id] = [attempts |-> @.attempts + 1]]
    ELSE [x \in DOMAIN failed \cup {channel_id} |->
            IF x = channel_id THEN [attempts |-> 1] ELSE failed[x]]

\* del queue_data['failed'][channel_id]
RemoveFailure(failed, channel_id) ==
    [x \in DOMAIN failed \ {channel_id} |-> failed[x]]

\* a start that ignores the checkpointed cursor (process_queue with resume off)
StartIndexFromZero(q) == 0

\* start_index = queue_data.get('current_index', 0)
StartIndex(q) == q.current_index

\* a cursor that is set to the loop index itself
NextIndexSame(k) == k

\* queue_data['current_index'] = i + 1
NextIndex(k) == k + 1

----------------------------------------------------------------------------
(* Outcomes of scrape_channel as run_scraping tells them apart (lines 428-482) *)

Outcome(kind, handle) == [kind |-> kind, handle |-> handle]

AllOutcomes ==
    {Outcome("Success", h) : h \in PageHandles}
        \cup {Outcome(k, NoHandle) :
                k \in {"Skipped", "NotFound", "RateLimited", "Error"}}

\* the outcomes explored on the long queues
StormOutcomes == {Outcome("Success", NoHandle), Outcome("Error", NoHandle)}

EmptyMap == [x \in {} |-> [attempts |-> 0]]

\* create_queue_file / load_queue_file's default
FreshQueue == [current_index |-> 0, completed |-> <<>>, failed |-> EmptyMap]

\* load_progress's default
FreshProgress == [completed_channels |-> <<>>, failed_channels |-> EmptyMap]

NoStats == [success |-> 0, failed |-> 0, skipped |-> 0]

\* _create_initial_state, the fields run_scraping updates
InitialState ==
    [scraping_status |-> "pending", channels_scraped |-> 0, channels_failed |-> 0,
     total_channels_scraped |-> 0, total_channels_failed |-> 0,
     browser_restarts |-> 0,
     phase |-> "discovery", discovery_status |-> "pending",
     discovery_progress_file |-> [kind |-> "none", n |-> 0],
     discovery_queue_files |-> <<>>,
     discovery_attempts |-> 0, stat_discovery_attempts |-> 0,
     total_channels_discovered |-> 0]

\* names of discovery progress files: none, the file a session writes
\* (discovery_progress_<session_id>.json, _get_progress_file), and the name
\* run_discovery records on completion
\* (discovery_progress_<region>_<new timestamp>.json, lines 289-290)
NoFile == [kind |-> "none", n |-> 0]
SessionFile(n) == [kind |-> "session", n |-> n]
RecordedFile(n) == [kind |-> "recorded", n |-> n]

\* progress_data as discover_channels builds it for a new session (lines 657-691)
FreshDiscoveryProgress ==
    [path |-> NoFile, current_query_index |-> 0, completed_queries |-> {},
     failed_queries |-> [x \in {} |-> 0], discovered_channels |-> <<>>,
     completed |-> FALSE]

NoFiles == [x \in {} |-> FreshDiscoveryProgress]

NoEntry == [phase |-> "none", discovery_status |-> "none",
            scraping_status |-> "none", queue_files |-> <<>>, runs |-> 0,
            attempts |-> 0, completed_queries |-> {}]

\* the variables of run() and of the discovery stage
orch_vars == <<rpc, shutdown_requested, raised, results_status, invocations, entry,
               queue_file>>
disc_vars == <<queries, found, faults, dpc, attempt, should_resume, dprogress,
               dfiles, qi, issued>>

\* main() with --scrape-only --queue <file>: run_scraping is called directly and
\* no signal arrives (lines 725-727)
ScrapeOnly ==
    /\ rpc = "scrape_only"
    /\ shutdown_requested = FALSE
    /\ raised = "none"
    /\ results_status = "none"
    /\ invocations = 0
    /\ entry = NoEntry
    /\ queue_file = "queue"
    /\ queries = <<>>
    /\ found = <<>>
    /\ faults = 0
    /\ dpc = "off"
    /\ attempt = 0
    /\ should_resume = FALSE
    /\ dprogress = FreshDiscoveryProgress
    /\ dfiles = NoFiles
    /\ qi = 0
    /\ issued = <<>>

Ev(op, arg) == [op |-> op, arg |-> arg]
Ops(l) == {l[k].op : k \in DOMAIN l}

NoOutcomes == [p \in 1..Len(AllIds) |-> "none"]
NoPrev == [valid |-> FALSE, killed |-> FALSE, outcomes |-> NoOutcomes,
           stats |-> NoStats, retryable |-> {}]

Total == Len(channels)
Current == channels[i + 1]

Queues(lo, hi) == {SubSeq(AllIds, 1, k) : k \in lo..hi}

\* the files before the first invocation, and the executions explored: queues
\* of up to maxShort channels with every outcome, queues of more than
\* BreakerThreshold and up to maxLong channels with Success and Exception only
Start(maxShort, maxLong, maxRuns, maxPrior) ==
    /\ \/ /\ channels \in Queues(1, maxShort)
          /\ env = AllOutcomes
          \* channels another queue of the region already completed
          /\ \E done \in SUBSET Range(channels) :
                /\ Cardinality(done) <= maxPrior
                /\ pfile = [FreshProgress EXCEPT !.completed_channels =
                              SelectSeq(channels, LAMBDA x : x \in done)]
                /\ artifacts = {SafeId(x) : x \in done}
       \/ /\ channels \in Queues(BreakerThreshold + 1, maxLong)
          /\ env = StormOutcomes
          /\ pfile = FreshProgress
          /\ artifacts = {}
    /\ runs_allowed = maxRuns
    /\ qfile = FreshQueue
    /\ state_file = InitialState
    /\ state = InitialState
    /\ queue_data = FreshQueue
    /\ progress = FreshProgress
    /\ pc = "idle"
    /\ start_index = 0
    /\ i = 0
    /\ stats = NoStats
    /\ channels_since_restart = 0
    /\ attempts = 0
    /\ channel_data = NoHandle
    /\ browser = "closed"
    /\ run = 0
    /\ kills = 0
    /\ log = <<>>
    /\ outcomes = NoOutcomes
    /\ prev = NoPrev
    /\ skipped_by_scraper = {}
    /\ ScrapeOnly

Init == Start(MaxQueue, MaxLongQueue, MaxRuns, MaxPrior)

InitCrash == Start(MaxCrashQueue, MaxCrashLongQueue, MaxCrashRuns, 0)

----------------------------------------------------------------------------
(* run_scraping *)

disk == <<qfile, pfile, artifacts, state_file>>
fixed == <<channels, env, runs_allowed, kills, start_index, orch_vars, disc_vars>>

\* positions of this invocation's RateLimited entities that still have budget
Retryable ==
    {p \in 1..Total : /\ outcomes[p] = "RateLimited"
                      /\ FailedAttempts(queue_data, channels[p]) < max_channel_retries}

\* lines 348-383: load the checkpoints, open the session
StartRunScraping ==
    /\ pc \in {"idle", "done", "killed"}
    /\ run < runs_allowed
    /\ rpc \in {"scrape_only", "call_scraping"}
    /\ rpc' = IF rpc = "call_scraping" THEN "in_scraping" ELSE rpc
    /\ raised' = "none"
    /\ run' = run + 1
    /\ state' = [state EXCEPT !.scraping_status = "running"]
    /\ state_file' = state'
    /\ queue_data' = qfile
    /\ progress' = pfile
    /\ start_index' = StartIndex(qfile)
    /\ i' = start_index'
    /\ stats' = NoStats
    /\ channels_since_restart' = 0
    /\ attempts' = 0
    /\ channel_data' = NoHandle
    /\ browser' = "open"
    /\ pc' = "loop"
    /\ log' = <<>>
    /\ prev' = IF run = 0 THEN prev
               ELSE [valid |-> TRUE, killed |-> (pc = "killed"),
                     outcomes |-> outcomes, stats |-> stats,
                     retryable |-> IF pc = "done" THEN Retryable ELSE {}]
    /\ outcomes' = NoOutcomes
    /\ UNCHANGED <<channels, env, runs_allowed, kills, qfile, pfile, artifacts,
                   skipped_by_scraper, shutdown_requested, results_status,
                   invocations, entry, queue_file, disc_vars>>

\* line 385: the range is exhausted
LoopExit ==
    /\ pc = "loop"
    /\ i >= Total
    /\ pc' = "finally_cleanup"
    /\ UNCHANGED <<fixed, disk, state, queue_data, progress, i, stats,
                   channels_since_restart, attempts, channel_data, browser, run,
                   log, outcomes, prev, skipped_by_scraper>>

\* lines 401-405
SkipCompleted ==
    /\ pc = "loop"
    /\ i < Total
    /\ ~shutdown_requested
    /\ is_channel_completed(Current, progress, artifacts)
    /\ stats' = [stats EXCEPT !.skipped = @ + 1]
    /\ i' = i + 1
    /\ log' = <<>>
    /\ UNCHANGED <<fixed, disk, state, queue_data, progress, pc,
                   channels_since_restart, attempts, channel_data, browser, run,
                   outcomes, prev, skipped_by_scraper>>

\* lines 407-414
SkipExhausted ==
    /\ pc = "loop"
    /\ i < Total
    /\ ~shutdown_requested
    /\ ~is_channel_completed(Current, progress, artifacts)
    /\ FailedAttempts(queue_data, Current) >= max_channel_retries
    /\ attempts' = FailedAttempts(queue_data, Current)
    /\ stats' = [stats EXCEPT !.failed = @ + 1]
    /\ i' = i + 1
    /\ log' = <<>>
    /\ UNCHANGED <<fixed, disk, state, queue_data, progress, pc,
                   channels_since_restart, channel_data, browser, run,
                   outcomes, prev, skipped_by_scraper>>

\* lines 407-417: the entity is to be scraped; is a periodic restart due?
BeginScrape ==
    /\ pc = "loop"
    /\ i < Total
    /\ ~shutdown_requested
    /\ ~is_channel_completed(Current, progress, artifacts)
    /\ FailedAttempts(queue_data, Current) < max_channel_retries
    /\ attempts' = FailedAttempts(queue_data, Current)
    /\ log' = <<>>
    /\ pc' = IF channels_since_restart >= RestartInterval
             THEN "interval_cleanup" ELSE "scrape"
    /\ UNCHANGED <<fixed, disk, state, queue_data, progress, i, stats,
                   channels_since_restart, channel_data, browser, run,
                   outcomes, prev, skipped_by_scraper>>

\* a cleanup that leaves the session open
CleanupNoClose(from, to) ==
    /\ pc = from
    /\ log' = Append(log, Ev("cleanup", 0))
    /\ pc' = to
    /\ UNCHANGED <<fixed, disk, state, queue_data, progress, i, stats,
                   channels_since_restart, attempts, channel_data, browser, run,
                   outcomes, prev, skipped_by_scraper>>

\* await scraper.cleanup()
Cleanup(from, to) ==
    /\ pc = from
    /\ browser' = "closed"
    /\ log' = Append(log, Ev("cleanup", 0))
    /\ pc' = to
    /\ UNCHANGED <<fixed, disk, state, queue_data, progress, i, stats,
                   channels_since_restart, attempts, channel_data, run,
                   outcomes, prev, skipped_by_scraper>>

\* await asyncio.sleep(seconds)
Sleep(from, to, seconds) ==
    /\ pc = from
    /\ log' = Append(log, Ev("sleep", seconds))
    /\ pc' = to
    /\ UNCHANGED <<fixed, disk, state, queue_data, progress, i, stats,
                   channels_since_restart, attempts, channel_data, browser, run,
                   outcomes, prev, skipped_by_scraper>>

\* line 419
IntervalCleanup == Cleanup("interval_cleanup", "interval_sleep")

\* line 420
IntervalSleep == Sleep("interval_sleep", "interval_start", RestartSleep)

\* a periodic restart that keeps the count of the old session
IntervalStartKeepsCount ==
    /\ pc = "interval_start"
    /\ browser' = "open"
    /\ log' = Append(log, Ev("start_browser", 0))
    /\ state' = [state EXCEPT !.browser_restarts = @ + 1]
    /\ state_file' = state'
    /\ pc' = "scrape"
    /\ UNCHANGED <<fixed, qfile, pfile, artifacts, queue_data, progress, i, stats,
                   channels_since_restart, attempts, channel_data, run, outcomes,
                   prev, skipped_by_scraper>>

\* lines 421-423
IntervalStart ==
    /\ pc = "interval_start"
    /\ browser' = "open"
    /\ log' = Append(log, Ev("start_browser", 0))
    /\ channels_since_restart' = 0
    /\ state' = [state EXCEPT !.browser_restarts = @ + 1]
    /\ state_file' = state'
    /\ pc' = "scrape"
    /\ UNCHANGED <<fixed, qfile, pfile, artifacts, queue_data, progress, i, stats,
                   attempts, channel_data, run, outcomes, prev,
                   skipped_by_scraper>>

\* progress['failed_channels'][channel_id] = queue_data['failed'][channel_id]
SetFailure(failed_channels, channel_id, record) ==
    [x \in DOMAIN failed_channels \cup {channel_id} |->
        IF x = channel_id THEN record ELSE failed_channels[x]]

\* a failure that leaves the queue's failed map as it was
RecordedNowhere(q) == q

\* the in-memory effect of _record_channel_failure(queue_data, progress, id, e)
Recorded(q) == [q EXCEPT !.failed = RecordFailure(q.failed, Current)]
RecordedProgress(q, prog) ==
    [prog EXCEPT !.failed_channels =
        SetFailure(prog.failed_channels, Current,
                   RecordFailure(q.failed, Current)[Current])]

\* line 428 returns channel_data
ScrapeSuccess ==
    /\ pc = "scrape"
    /\ \E o \in env :
          /\ o.kind = "Success"
          /\ channel_data' = BuildChannelId(Current, o.handle)
    /\ outcomes' = [outcomes EXCEPT ![i + 1] = "Success"]
    /\ log' = Append(log, Ev("scrape_channel", 0))
    /\ pc' = "save_channel_data"
    /\ UNCHANGED <<fixed, disk, state, queue_data, progress, i, stats,
                   channels_since_restart, attempts, browser, run, prev,
                   skipped_by_scraper>>

\* line 429
SaveChannelData ==
    /\ pc = "save_channel_data"
    /\ artifacts' = artifacts \cup {ArtifactName(channel_data)}
    /\ log' = Append(log, Ev("save_channel_data", 0))
    /\ pc' = "success_update"
    /\ UNCHANGED <<fixed, qfile, pfile, state_file, state, queue_data, progress, i,
                   stats, channels_since_restart, attempts, channel_data, browser,
                   run, outcomes, prev, skipped_by_scraper>>

\* lines 431-444
SuccessUpdate ==
    /\ pc = "success_update"
    /\ progress' = [progress EXCEPT !.completed_channels = Append(@, Current)]
    /\ queue_data' = [queue_data EXCEPT
                        !.completed = Append(@, Current),
                        !.current_index = NextIndex(i),
                        !.failed = RemoveFailure(@, Current)]
    /\ stats' = [stats EXCEPT !.success = @ + 1]
    /\ channels_since_restart' = channels_since_restart + 1
    /\ state' = [state EXCEPT !.total_channels_scraped = @ + 1]
    /\ state_file' = state'
    /\ pc' = "success_save_progress"
    /\ UNCHANGED <<fixed, qfile, pfile, artifacts, i, attempts, channel_data,
                   browser, run, log, outcomes, prev, skipped_by_scraper>>

\* save_progress(progress, queue_file)
SaveProgressLost(from, to) ==
    /\ pc = from
    /\ pfile' = pfile
    /\ log' = Append(log, Ev("save_progress", 0))
    /\ pc' = to
    /\ UNCHANGED <<fixed, qfile, artifacts, state_file, state, queue_data, progress,
                   stats, channels_since_restart, attempts, channel_data, browser,
                   run, outcomes, prev, skipped_by_scraper>>

SaveProgress(from, to) ==
    /\ pc = from
    /\ pfile' = progress
    /\ log' = Append(log, Ev("save_progress", 0))
    /\ pc' = to
    /\ UNCHANGED <<fixed, qfile, artifacts, state_file, state, queue_data, progress,
                   stats, channels_since_restart, attempts, channel_data, browser,
                   run, outcomes, prev, skipped_by_scraper>>

\* a save_queue_file that does not reach the disk
SaveQueueFileLost(from, to) ==
    /\ pc = from
    /\ qfile' = qfile
    /\ log' = Append(log, Ev("save_queue_file", 0))
    /\ pc' = to
    /\ UNCHANGED <<fixed, pfile, artifacts, state_file, state, queue_data, progress,
                   stats, channels_since_restart, attempts, channel_data, browser,
                   run, outcomes, prev, skipped_by_scraper>>

\* save_queue_file(queue_file, queue_data)
SaveQueueFile(from, to) ==
    /\ pc = from
    /\ qfile' = queue_data
    /\ log' = Append(log, Ev("save_queue_file", 0))
    /\ pc' = to
    /\ UNCHANGED <<fixed, pfile, artifacts, state_file, state, queue_data, progress,
                   stats, channels_since_restart, attempts, channel_data, browser,
                   run, outcomes, prev, skipped_by_scraper>>

\* line 447
SuccessSaveProgress ==
    SaveProgress("success_save_progress", "success_save_queue") /\ i' = i

\* lines 448-454: the last statements of the iteration
SuccessSaveQueue ==
    SaveQueueFile("success_save_queue", "loop") /\ i' = i + 1

\* lines 456-459: scrape_channel raised ChannelSkippedException
ScrapeSkipped ==
    /\ pc = "scrape"
    /\ Outcome("Skipped", NoHandle) \in env
    /\ outcomes' = [outcomes EXCEPT ![i + 1] = "Skipped"]
    /\ log' = Append(log, Ev("scrape_channel", 0))
    /\ stats' = [stats EXCEPT !.skipped = @ + 1]
    /\ queue_data' = [queue_data EXCEPT !.current_index = NextIndex(i)]
    /\ skipped_by_scraper' = skipped_by_scraper \cup {Current}
    /\ pc' = "skipped_save_queue"
    /\ UNCHANGED <<fixed, disk, state, progress, i, channels_since_restart,
                   attempts, channel_data, browser, run, prev>>

\* line 460
SkippedSaveQueue ==
    SaveQueueFile("skipped_save_queue", "loop") /\ i' = i + 1

\* lines 462-466: scrape_channel raised ChannelNotFoundException
ScrapeNotFound ==
    /\ pc = "scrape"
    /\ Outcome("NotFound", NoHandle) \in env
    /\ outcomes' = [outcomes EXCEPT ![i + 1] = "NotFound"]
    /\ log' = Append(log, Ev("scrape_channel", 0))
    /\ queue_data' = [Recorded(queue_data) EXCEPT !.current_index = NextIndex(i)]
    /\ progress' = RecordedProgress(queue_data, progress)
    /\ stats' = [stats EXCEPT !.failed = @ + 1]
    /\ pc' = "notfound_save_queue"
    /\ UNCHANGED <<fixed, disk, state, i, channels_since_restart, attempts,
                   channel_data, browser, run, prev, skipped_by_scraper>>

\* line 467
NotFoundSaveQueue ==
    SaveQueueFile("notfound_save_queue", "notfound_save_progress") /\ i' = i

\* line 468
NotFoundSaveProgress ==
    SaveProgress("notfound_save_progress", "loop") /\ i' = i + 1

\* lines 470-472: scrape_channel raised RateLimitException
ScrapeRateLimited ==
    /\ pc = "scrape"
    /\ Outcome("RateLimited", NoHandle) \in env
    /\ outcomes' = [outcomes EXCEPT ![i + 1] = "RateLimited"]
    /\ log' = Append(log, Ev("scrape_channel", 0))
    /\ queue_data' = Recorded(queue_data)
    /\ progress' = RecordedProgress(queue_data, progress)
    /\ pc' = "ratelimit_cleanup"
    /\ UNCHANGED <<fixed, disk, state, i, stats, channels_since_restart, attempts,
                   channel_data, browser, run, prev, skipped_by_scraper>>

\* line 475
RateLimitCleanup ==
    Cleanup("ratelimit_cleanup", "ratelimit_sleep")

\* a cooldown computed from the attempts before recording
RateLimitCooldownBefore == _calculate_cooldown(attempts)

\* cooldown = self._calculate_cooldown(attempts + 1)
RateLimitCooldown == _calculate_cooldown(attempts + 1)

\* lines 476-478
RateLimitSleep ==
    Sleep("ratelimit_sleep", "ratelimit_start", RateLimitCooldown)

\* lines 479-480, the last statements of the iteration
RateLimitStart ==
    /\ pc = "ratelimit_start"
    /\ browser' = "open"
    /\ log' = Append(log, Ev("start_browser", 0))
    /\ channels_since_restart' = 0
    /\ i' = i + 1
    /\ pc' = "loop"
    /\ UNCHANGED <<fixed, disk, state, queue_data, progress, stats, attempts,
                   channel_data, run, outcomes, prev, skipped_by_scraper>>

\* lines 482-491: scrape_channel raised any other exception
ScrapeError ==
    /\ pc = "scrape"
    /\ Outcome("Error", NoHandle) \in env
    /\ outcomes' = [outcomes EXCEPT ![i + 1] = "Error"]
    /\ log' = Append(log, Ev("scrape_channel", 0))
    /\ queue_data' = [Recorded(queue_data) EXCEPT !.current_index = NextIndex(i)]
    /\ progress' = RecordedProgress(queue_data, progress)
    /\ stats' = [stats EXCEPT !.failed = @ + 1]
    /\ state' = [state EXCEPT !.total_channels_failed = @ + 1]
    /\ state_file' = state'
    /\ pc' = "error_save_queue"
    /\ UNCHANGED <<fixed, qfile, pfile, artifacts, i, channels_since_restart,
                   attempts, channel_data, browser, run, prev, skipped_by_scraper>>

\* line 492
ErrorSaveQueue ==
    SaveQueueFile("error_save_queue", "error_save_progress") /\ i' = i

\* if self._check_consecutive_failures(queue_data) >= 5
BreakerTripped(q) == _check_consecutive_failures(q) >= BreakerThreshold

\* a breaker that fires only when the count is exactly at the threshold
ErrorSaveProgressAtThresholdOnly ==
    \/ /\ _check_consecutive_failures(queue_data) = BreakerThreshold
       /\ SaveProgress("error_save_progress", "breaker_cleanup")
       /\ i' = i
    \/ /\ _check_consecutive_failures(queue_data) # BreakerThreshold
       /\ SaveProgress("error_save_progress", "loop")
       /\ i' = i + 1

\* lines 493-496
ErrorSaveProgress ==
    \/ /\ BreakerTripped(queue_data)
       /\ SaveProgress("error_save_progress", "breaker_cleanup")
       /\ i' = i
    \/ /\ ~BreakerTripped(queue_data)
       /\ SaveProgress("error_save_progress", "loop")
       /\ i' = i + 1

\* line 498
BreakerCleanup == Cleanup("breaker_cleanup", "breaker_sleep")

\* line 499
BreakerCooldown == Sleep("breaker_sleep", "breaker_start", BreakerSleep)

\* lines 500-502, the last statements of the iteration
BreakerStart ==
    /\ pc = "breaker_start"
    /\ browser' = "open"
    /\ log' = Append(log, Ev("start_browser", 0))
    /\ channels_since_restart' = 0
    /\ state' = [state EXCEPT !.browser_restarts = @ + 1]
    /\ state_file' = state'
    /\ i' = i + 1
    /\ pc' = "loop"
    /\ UNCHANGED <<fixed, qfile, pfile, artifacts, queue_data, progress, stats,
                   attempts, channel_data, run, outcomes, prev,
                   skipped_by_scraper>>

\* lines 508-513
FinallyCleanup ==
    /\ pc = "finally_cleanup"
    /\ browser' = "closed"
    /\ log' = <<Ev("cleanup", 0)>>
    /\ pc' = "finally_save_queue"
    /\ UNCHANGED <<fixed, disk, state, queue_data, progress, i, stats,
                   channels_since_restart, attempts, channel_data, run,
                   outcomes, prev, skipped_by_scraper>>

\* line 516
FinallySaveQueue ==
    SaveQueueFile("finally_save_queue", "finally_save_progress") /\ i' = i

\* line 517
FinallySaveProgress ==
    SaveProgress("finally_save_progress", "finally_status") /\ i' = i

\* lines 519-526
FinallyStatus ==
    /\ pc = "finally_status"
    /\ state' = [state EXCEPT !.scraping_status =
                                  IF shutdown_requested THEN "interrupted"
                                  ELSE "completed",
                              !.channels_scraped = stats.success,
                              !.channels_failed = stats.failed]
    /\ state_file' = state'
    /\ pc' = "done"
    /\ UNCHANGED <<fixed, qfile, pfile, artifacts, queue_data, progress, i, stats,
                   channels_since_restart, attempts, channel_data, browser, run,
                   log, outcomes, prev, skipped_by_scraper>>

\* the process is killed (SIGKILL, power loss) inside run_scraping: memory is
\* lost, the files stay; the next process loads the state file.  Only kills
\* that are followed by another invocation are explored.
Kill ==
    /\ pc \notin {"idle", "done", "killed"}
    /\ run < runs_allowed
    /\ kills < MaxKills
    /\ kills' = kills + 1
    /\ pc' = "killed"
    /\ state' = state_file
    /\ queue_data' = FreshQueue
    /\ progress' = FreshProgress
    /\ start_index' = 0
    /\ i' = 0
    /\ stats' = NoStats
    /\ channels_since_restart' = 0
    /\ attempts' = 0
    /\ channel_data' = NoHandle
    /\ browser' = "closed"
    /\ log' = <<>>
    \* a scrape_channel call that had not returned yet was in flight
    /\ outcomes' = IF pc = "scrape"
                   THEN [outcomes EXCEPT ![i + 1] = "InFlight"] ELSE outcomes
    /\ UNCHANGED <<channels, env, runs_allowed, disk, run, prev,
                   skipped_by_scraper, orch_vars, disc_vars>>

Next ==
    \/ StartRunScraping
    \/ LoopExit
    \/ SkipCompleted
    \/ SkipExhausted
    \/ BeginScrape
    \/ IntervalCleanup
    \/ IntervalSleep
    \/ IntervalStart
    \/ ScrapeSuccess
    \/ SaveChannelData
    \/ SuccessUpdate
    \/ SuccessSaveProgress
    \/ SuccessSaveQueue
    \/ ScrapeSkipped
    \/ SkippedSaveQueue
    \/ ScrapeNotFound
    \/ NotFoundSaveQueue
    \/ NotFoundSaveProgress
    \/ ScrapeRateLimited
    \/ RateLimitCleanup
    \/ RateLimitSleep
    \/ RateLimitStart
    \/ ScrapeError
    \/ ErrorSaveQueue
    \/ ErrorSaveProgress
    \/ BreakerCleanup
    \/ BreakerCooldown
    \/ BreakerStart
    \/ FinallyCleanup
    \/ FinallySaveQueue
    \/ FinallySaveProgress
    \/ FinallyStatus

Spec == Init /\ [][Next]_vars

NextCrash == Next \/ Kill

SpecCrash == InitCrash /\ [][NextCrash]_vars

----------------------------------------------------------------------------
(* run_discovery and discover_channels *)

\* f"{location} {category} influencer" for each category and location
AllQueries == <<"q1", "q2", "q3">>

\* the query lists explored; a config that names a category twice builds the
\* same query twice
QueryLists(n) ==
    {SubSeq(AllQueries, 1, k) : k \in 1..n} \cup {<<"q1", "q1">>}

\* what a search can return: nothing, or one channel not listed before
Findings(qs) ==
    {f \in [1..Len(qs) -> {<<>>} \cup {<<AllIds[k]>> : k \in 1..Len(qs)}] :
        \A k \in 1..Len(qs) : f[k] \in {<<>>, <<AllIds[k]>>}}

\* the scraping stage before it has ever run, with orchestration state st
ScrapingIdleOn(st) ==
    /\ qfile = FreshQueue
    /\ pfile = FreshProgress
    /\ artifacts = {}
    /\ state_file = st
    /\ state = st
    /\ queue_data = FreshQueue
    /\ progress = FreshProgress
    /\ pc = "idle"
    /\ start_index = 0
    /\ i = 0
    /\ stats = NoStats
    /\ channels_since_restart = 0
    /\ attempts = 0
    /\ channel_data = NoHandle
    /\ browser = "closed"
    /\ run = 0
    /\ kills = 0
    /\ log = <<>>
    /\ outcomes = NoOutcomes
    /\ prev = NoPrev
    /\ skipped_by_scraper = {}

\* the scraping stage before it has ever run
ScrapingIdle == ScrapingIdleOn(InitialState)

\* the discovery stage before it has ever run
DiscoveryIdle ==
    /\ dpc = "off"
    /\ attempt = 0
    /\ should_resume = FALSE
    /\ dprogress = FreshDiscoveryProgress
    /\ dfiles = NoFiles
    /\ qi = 0
    /\ issued = <<>>
    /\ shutdown_requested = FALSE
    /\ raised = "none"
    /\ results_status = "none"
    /\ invocations = 0
    /\ entry = NoEntry
    /\ queue_file = "None"

\* main() with --discovery-only (lines 720-724)
InitDiscovery ==
    /\ ScrapingIdle
    /\ DiscoveryIdle
    /\ queries \in QueryLists(MaxQueries)
    /\ found \in Findings(queries)
    /\ faults \in {0, MaxFaults}
    /\ env = AllOutcomes
    /\ channels = <<>>
    /\ runs_allowed = MaxDiscoveryRuns
    /\ rpc = "off"

\* main() without --discovery-only / --scrape-only (lines 728-730), on a state
\* file that --discovery-only processes may share: short query lists with
\* every scrape_channel outcome, or one query listing more than
\* BreakerThreshold channels with Success and Exception only
InitRun ==
    /\ ScrapingIdle
    /\ DiscoveryIdle
    /\ \/ /\ queries \in QueryLists(MaxRunQueries)
          /\ found \in Findings(queries)
          /\ faults \in {0, MaxRunFaults}
          /\ env = AllOutcomes
          /\ runs_allowed = MaxRunInvocations
       \/ /\ queries = SubSeq(AllQueries, 1, 1)
          /\ found = <<SubSeq(AllIds, 1, BreakerThreshold + 1)>>
          /\ faults = MaxRunFaults
          /\ env = StormOutcomes
          /\ runs_allowed = MaxStormInvocations
    /\ channels = <<>>
    /\ rpc = "off"

scraping_vars == <<env, runs_allowed, pfile, artifacts, queue_data, progress, pc,
                   start_index, i, stats, channels_since_restart, attempts,
                   channel_data, browser, run, kills, log, outcomes, prev,
                   skipped_by_scraper>>

\* what the process found in the state file
\* and how many times run_scraping had been called before
Snapshot(st) ==
    [phase |-> st.phase, discovery_status |-> st.discovery_status,
     scraping_status |-> st.scraping_status,
     queue_files |-> st.discovery_queue_files, runs |-> run,
     attempts |-> st.discovery_attempts,
     completed_queries |->
        IF st.discovery_progress_file \in DOMAIN dfiles
        THEN dfiles[st.discovery_progress_file].completed_queries ELSE {}]

\* an operation of the discovery stage, with the attempt it belongs to and
\* whether shutdown had been requested when it was started
DEv(op, query) ==
    [op |-> op, query |-> query, attempt |-> attempt,
     after_shutdown |-> shutdown_requested]

\* ResilientOrchestrator(...): the state file is loaded, the flag is cleared
NewProcess ==
    /\ state' = state_file
    /\ shutdown_requested' = FALSE
    /\ raised' = "none"
    /\ results_status' = "none"
    /\ invocations' = invocations + 1
    /\ entry' = Snapshot(state_file)
    /\ issued' = <<>>

\* lines 709-721: a process started with --discovery-only calls run_discovery
StartDiscoveryOnly ==
    /\ rpc = "off"
    /\ invocations < runs_allowed
    /\ NewProcess
    /\ rpc' = "discovery_only"
    /\ dpc' = "rd_entry"
    /\ UNCHANGED <<channels, qfile, state_file, scraping_vars, queue_file,
                   queries, found, faults, attempt, should_resume, dprogress,
                   dfiles, qi>>

\* lines 721-724: run_discovery returned, or raised GracefulExit which main()
\* does not catch; the process ends
DiscoveryOnlyExit ==
    /\ rpc = "discovery_only"
    /\ dpc = "returned"
    /\ rpc' = "off"
    /\ dpc' = "off"
    /\ UNCHANGED <<channels, qfile, state_file, state, scraping_vars,
                   shutdown_requested, raised, results_status, invocations, entry,
                   queue_file,
                   queries, found, faults, attempt, should_resume, dprogress,
                   dfiles, qi, issued>>

\* _signal_handler (lines 199-202): SIGINT / SIGTERM arrives while the process runs
Signal ==
    /\ IF rpc = "discovery_only"
       THEN dpc # "returned"
       ELSE rpc \in {"run_phase1", "in_discovery", "run_phase2", "call_scraping",
                     "in_scraping"}
    /\ ~shutdown_requested
    /\ shutdown_requested' = TRUE
    /\ UNCHANGED <<channels, qfile, state_file, state, scraping_vars, rpc, raised,
                   results_status, invocations, entry, queue_file, disc_vars>>

\* what no step of run_discovery changes
dfix == <<scraping_vars, rpc, shutdown_requested, results_status, invocations,
          entry, queries, found>>

\* lines 246-249: discovery was completed by an earlier attempt
RdAlreadyCompleted ==
    /\ dpc = "rd_entry"
    /\ state.discovery_status = "completed"
    /\ state.discovery_queue_files # <<>>
    /\ queue_file' = state.discovery_queue_files[1]
    /\ dpc' = "returned"
    /\ UNCHANGED <<dfix, channels, qfile, state_file, state, raised, faults,
                   attempt, should_resume, dprogress, dfiles, qi, issued>>

\* a run_discovery that numbers its attempts from 1 in every call
RdEnterFromOne ==
    /\ dpc = "rd_entry"
    /\ ~(state.discovery_status = "completed" /\ state.discovery_queue_files # <<>>)
    /\ should_resume' = (/\ state.discovery_progress_file # NoFile
                         /\ state.discovery_progress_file \in DOMAIN dfiles)
    /\ attempt' = 1
    /\ dpc' = "rd_loop"
    /\ UNCHANGED <<dfix, channels, qfile, state_file, state, raised, queue_file,
                   faults, dprogress, dfiles, qi, issued>>

\* lines 251-255: progress_file, should_resume and the first attempt number
RdEnter ==
    /\ dpc = "rd_entry"
    /\ ~(state.discovery_status = "completed" /\ state.discovery_queue_files # <<>>)
    /\ should_resume' = (/\ state.discovery_progress_file # NoFile
                         /\ state.discovery_progress_file \in DOMAIN dfiles)
    /\ attempt' = state.discovery_attempts + 1
    /\ dpc' = "rd_loop"
    /\ UNCHANGED <<dfix, channels, qfile, state_file, state, raised, queue_file,
                   faults, dprogress, dfiles, qi, issued>>

\* a discover_channels that ignores the progress file it is given
DcInitFresh ==
    /\ dpc = "dc_init"
    /\ dprogress' = [FreshDiscoveryProgress EXCEPT !.path = SessionFile(attempt)]
    /\ qi' = 0
    /\ dpc' = "dc_loop"
    /\ UNCHANGED <<dfix, channels, qfile, state_file, state, raised, queue_file,
                   faults, attempt, should_resume, dfiles, issued>>

\* lines 330-331: range(attempts + 1, max_retries + 1) is exhausted
RdExhausted ==
    /\ dpc = "rd_loop"
    /\ attempt > max_discovery_retries
    /\ queue_file' = "None"
    /\ dpc' = "returned"
    /\ UNCHANGED <<dfix, channels, qfile, state_file, state, raised, faults,
                   attempt, should_resume, dprogress, dfiles, qi, issued>>

\* lines 256-257
RdShutdown ==
    /\ dpc = "rd_loop"
    /\ attempt <= max_discovery_retries
    /\ shutdown_requested
    /\ raised' = "GracefulExit"
    /\ dpc' = "returned"
    /\ UNCHANGED <<dfix, channels, qfile, state_file, state, queue_file, faults,
                   attempt, should_resume, dprogress, dfiles, qi, issued>>

\* lines 259-264
RdAttemptStart ==
    /\ dpc = "rd_loop"
    /\ attempt <= max_discovery_retries
    /\ ~shutdown_requested
    /\ state' = [state EXCEPT !.discovery_status = "running",
                              !.discovery_attempts = attempt,
                              !.stat_discovery_attempts = @ + 1]
    /\ state_file' = state'
    /\ dpc' = "rd_browser"
    /\ UNCHANGED <<dfix, channels, qfile, raised, queue_file, faults, attempt,
                   should_resume, dprogress, dfiles, qi, issued>>

\* lines 270-271
RdStartBrowser ==
    /\ dpc = "rd_browser"
    /\ issued' = Append(issued, DEv("start_browser", ""))
    /\ dpc' = "dc_init"
    /\ UNCHANGED <<dfix, channels, qfile, state_file, state, raised, queue_file,
                   faults, attempt, should_resume, dprogress, dfiles, qi>>

\* lines 270-271 raise (the browser cannot be launched)
RdStartBrowserFails ==
    /\ dpc = "rd_browser"
    /\ faults > 0
    /\ faults' = faults - 1
    /\ dpc' = "rd_except"
    /\ UNCHANGED <<dfix, channels, qfile, state_file, state, raised, queue_file,
                   attempt, should_resume, dprogress, dfiles, qi, issued>>

\* discover_channels(resume=should_resume, progress_file=progress_file),
\* lines 640-691: load the named progress file or start a new session
DcInit ==
    /\ dpc = "dc_init"
    /\ LET progress_file == state.discovery_progress_file
           loaded == /\ should_resume
                     /\ progress_file # NoFile
                     /\ progress_file \in DOMAIN dfiles
       IN  dprogress' =
              IF loaded
              THEN [dfiles[progress_file] EXCEPT !.path = progress_file,
                                                 !.completed = FALSE]
              ELSE [FreshDiscoveryProgress EXCEPT !.path = SessionFile(attempt)]
    /\ qi' = dprogress'.current_query_index
    /\ dpc' = "dc_loop"
    /\ UNCHANGED <<dfix, channels, qfile, state_file, state, raised, queue_file,
                   faults, attempt, should_resume, dfiles, issued>>

\* self._save_progress(progress_data, progress_path)
SavedDiscovery(files, data) ==
    [x \in DOMAIN files \cup {data.path} |->
        IF x = data.path THEN data ELSE files[x]]

\* lines 697-700
DcSkipCompleted ==
    /\ dpc = "dc_loop"
    /\ qi < Len(queries)
    /\ queries[qi + 1] \in dprogress.completed_queries
    /\ qi' = qi + 1
    /\ UNCHANGED <<dfix, channels, qfile, state_file, state, raised, queue_file,
                   faults, dpc, attempt, should_resume, dprogress, dfiles, issued>>

\* line 707: the search for queries[i] is started
DcQueryStart ==
    /\ dpc = "dc_loop"
    /\ qi < Len(queries)
    /\ queries[qi + 1] \notin dprogress.completed_queries
    /\ issued' = Append(issued, DEv("query", queries[qi + 1]))
    /\ dpc' = "dc_query"
    /\ UNCHANGED <<dfix, channels, qfile, state_file, state, raised, queue_file,
                   faults, attempt, should_resume, dprogress, dfiles, qi>>

\* channels of a search result that self.discovered_channels does not hold yet
NewChannels(result, known) == SelectSeq(result, LAMBDA c : c \notin Range(known))

\* lines 707-717: the search returned
DcQueryOk ==
    /\ dpc = "dc_query"
    /\ dprogress' =
          [dprogress EXCEPT
              !.discovered_channels =
                  @ \o NewChannels(found[qi + 1], dprogress.discovered_channels),
              !.completed_queries = @ \cup {queries[qi + 1]},
              !.current_query_index = qi + 1]
    /\ dfiles' = SavedDiscovery(dfiles, dprogress')
    /\ dpc' = "dc_delay"
    /\ UNCHANGED <<dfix, channels, qfile, state_file, state, raised, queue_file,
                   faults, attempt, should_resume, qi, issued>>

\* failed_queries[query] = failed_queries.get(query, 0) + 1
CountFailure(failed_queries, query) ==
    [x \in DOMAIN failed_queries \cup {query} |->
        IF x = query
        THEN (IF query \in DOMAIN failed_queries THEN failed_queries[query] ELSE 0) + 1
        ELSE failed_queries[x]]

\* lines 719-723: the search raised
DcQueryRaises ==
    /\ dpc = "dc_query"
    /\ faults > 0
    /\ faults' = faults - 1
    /\ dprogress' = [dprogress EXCEPT
                        !.failed_queries = CountFailure(@, queries[qi + 1])]
    /\ dfiles' = SavedDiscovery(dfiles, dprogress')
    /\ dpc' = "dc_delay"
    /\ UNCHANGED <<dfix, channels, qfile, state_file, state, raised, queue_file,
                   attempt, should_resume, qi, issued>>

\* lines 725-729
DcDelay ==
    /\ dpc = "dc_delay"
    /\ qi' = qi + 1
    /\ dpc' = "dc_loop"
    /\ UNCHANGED <<dfix, channels, qfile, state_file, state, raised, queue_file,
                   faults, attempt, should_resume, dprogress, dfiles, issued>>

\* lines 725-729 raise (e.g. a search_delay that is not a pair), caught at
\* lines 735-738
DcDelayRaises ==
    /\ dpc = "dc_delay"
    /\ faults > 0
    /\ faults' = faults - 1
    /\ dfiles' = SavedDiscovery(dfiles, dprogress)
    /\ dpc' = "rd_except"
    /\ UNCHANGED <<dfix, channels, qfile, state_file, state, raised, queue_file,
                   attempt, should_resume, dprogress, qi, issued>>

\* lines 740-747
DcFinish ==
    /\ dpc = "dc_loop"
    /\ qi >= Len(queries)
    /\ dprogress' = [dprogress EXCEPT !.completed = TRUE]
    /\ dfiles' = SavedDiscovery(dfiles, dprogress')
    /\ dpc' = "rd_channels"
    /\ UNCHANGED <<dfix, channels, qfile, state_file, state, raised, queue_file,
                   faults, attempt, should_resume, qi, issued>>

\* the path create_queue_file returns (lines 757-764, 782)
CreatedQueueFile == "mixed_global_queue"

\* lines 280-302 and the finally block: the queue file is created and recorded
RdCreateQueue ==
    /\ dpc = "rd_channels"
    /\ dprogress.discovered_channels # <<>>
    /\ channels' = dprogress.discovered_channels
    /\ qfile' = FreshQueue
    /\ state' = [state EXCEPT
                    !.discovery_status = "completed",
                    !.discovery_queue_files = <<CreatedQueueFile>>,
                    !.discovery_progress_file = RecordedFile(attempt),
                    !.total_channels_discovered = Len(dprogress.discovered_channels)]
    /\ state_file' = state'
    /\ queue_file' = CreatedQueueFile
    /\ issued' = Append(issued, DEv("cleanup", ""))
    /\ dpc' = "returned"
    /\ UNCHANGED <<dfix, raised, faults, attempt, should_resume, dprogress, dfiles,
                   qi>>

\* lines 282-286 raise (the queue file cannot be written)
RdCreateQueueFails ==
    /\ dpc = "rd_channels"
    /\ dprogress.discovered_channels # <<>>
    /\ faults > 0
    /\ faults' = faults - 1
    /\ dpc' = "rd_except"
    /\ UNCHANGED <<dfix, channels, qfile, state_file, state, raised, queue_file,
                   attempt, should_resume, dprogress, dfiles, qi, issued>>

\* lines 303-304 and the finally block: nothing found, on to the next attempt
RdNoChannels ==
    /\ dpc = "rd_channels"
    /\ dprogress.discovered_channels = <<>>
    /\ issued' = Append(issued, DEv("cleanup", ""))
    /\ attempt' = attempt + 1
    /\ dpc' = "rd_loop"
    /\ UNCHANGED <<dfix, channels, qfile, state_file, state, raised, queue_file,
                   faults, should_resume, dprogress, dfiles, qi>>

\* lines 308-328: the attempt failed; unless it was the last one, sleep
\* _calculate_cooldown(attempt) and resume next time; then the finally block
\* closes the discovery browser
RdExcept ==
    /\ dpc = "rd_except"
    /\ state' = [state EXCEPT !.discovery_status = "failed",
                              !.discovery_attempts = attempt]
    /\ state_file' = state'
    /\ should_resume' = IF attempt < max_discovery_retries THEN TRUE
                        ELSE should_resume
    /\ issued' = (IF attempt < max_discovery_retries
                  THEN Append(issued, [DEv("sleep", "") EXCEPT
                                          !.query = _calculate_cooldown(attempt)])
                  ELSE issued) \o <<DEv("cleanup", "")>>
    /\ attempt' = attempt + 1
    /\ dpc' = "rd_loop"
    /\ UNCHANGED <<dfix, channels, qfile, raised, queue_file, faults, dprogress,
                   dfiles, qi>>

NextDiscovery ==
    \/ StartDiscoveryOnly
    \/ DiscoveryOnlyExit
    \/ Signal
    \/ RdAlreadyCompleted
    \/ RdEnter
    \/ RdExhausted
    \/ RdShutdown
    \/ RdAttemptStart
    \/ RdStartBrowser
    \/ RdStartBrowserFails
    \/ DcInit
    \/ DcSkipCompleted
    \/ DcQueryStart
    \/ DcQueryOk
    \/ DcQueryRaises
    \/ DcDelay
    \/ DcDelayRaises
    \/ DcFinish
    \/ RdCreateQueue
    \/ RdCreateQueueFails
    \/ RdNoChannels
    \/ RdExcept

SpecDiscovery == InitDiscovery /\ [][NextDiscovery]_vars

----------------------------------------------------------------------------
(* run() *)

\* what no step of run() itself changes
rfix == <<channels, qfile, scraping_vars, shutdown_requested, raised, invocations,
          entry, queries, found, faults, attempt, should_resume, dprogress,
          dfiles, qi, issued>>

\* the same for a step that ends run() with self._print_summary(results)
\* (lines 638-641)
rexit == <<channels, qfile, scraping_vars, shutdown_requested, raised, invocations,
           entry, queries, found, faults, attempt, should_resume, dprogress,
           dfiles, qi>>

\* a run() that always takes the discovery branch
DiscoveryAlways(st) == TRUE

\* line 585
DiscoveryNeeded(st) ==
    st.phase \in {"discovery", "pending"} \/ st.discovery_status # "completed"

\* line 613
ScrapingNeeded(st, file) ==
    file # "None" /\ (st.phase # "completed" \/ st.scraping_status # "completed")

\* lines 709-717, 729, 577-581: a process runs the whole pipeline
RunStart ==
    /\ rpc = "off"
    /\ invocations < runs_allowed
    /\ NewProcess
    /\ rpc' = "run_phase1"
    /\ UNCHANGED <<channels, qfile, state_file, scraping_vars, queue_file,
                   queries, found, faults, dpc, attempt, should_resume, dprogress,
                   dfiles, qi>>

\* lines 585-591
RunEnterDiscovery ==
    /\ rpc = "run_phase1"
    /\ DiscoveryNeeded(state)
    /\ state' = [state EXCEPT !.phase = "discovery"]
    /\ state_file' = state'
    /\ rpc' = "in_discovery"
    /\ dpc' = "rd_entry"
    /\ UNCHANGED <<rfix, results_status, queue_file>>

\* lines 603-610
RunUseExisting ==
    /\ rpc = "run_phase1"
    /\ ~DiscoveryNeeded(state)
    /\ queue_file' = IF state.discovery_queue_files # <<>>
                     THEN state.discovery_queue_files[1] ELSE "None"
    /\ rpc' = "run_phase2"
    /\ UNCHANGED <<rfix, state, state_file, results_status, dpc>>

\* lines 591-598
RunDiscoveryReturned ==
    /\ rpc = "in_discovery"
    /\ dpc = "returned"
    /\ raised = "none"
    /\ queue_file # "None"
    /\ rpc' = "run_phase2"
    /\ dpc' = "off"
    /\ UNCHANGED <<rfix, state, state_file, results_status, queue_file>>

\* a run() that goes on to phase 2 without a queue file
RunDiscoveryFailedGoesOn ==
    /\ rpc = "in_discovery"
    /\ dpc = "returned"
    /\ raised = "none"
    /\ queue_file = "None"
    /\ results_status' = "failed"
    /\ rpc' = "run_phase2"
    /\ dpc' = "off"
    /\ UNCHANGED <<rfix, state, state_file, queue_file>>

\* lines 599-602
RunDiscoveryFailed ==
    /\ rpc = "in_discovery"
    /\ dpc = "returned"
    /\ raised = "none"
    /\ queue_file = "None"
    /\ results_status' = "failed"
    /\ rpc' = "off"
    /\ dpc' = "off"
    /\ UNCHANGED <<rfix, state, state_file, queue_file>>

\* lines 628-630, GracefulExit raised by run_discovery
RunDiscoveryInterrupted ==
    /\ rpc = "in_discovery"
    /\ dpc = "returned"
    /\ raised = "GracefulExit"
    /\ results_status' = "interrupted"
    /\ rpc' = "off"
    /\ dpc' = "off"
    /\ issued' = Append(issued, DEv("print_summary", ""))
    /\ UNCHANGED <<rexit, state, state_file, queue_file>>

\* lines 613-619
RunEnterScraping ==
    /\ rpc = "run_phase2"
    /\ ScrapingNeeded(state, queue_file)
    /\ state' = [state EXCEPT !.phase = "scraping"]
    /\ state_file' = state'
    /\ rpc' = "call_scraping"
    /\ UNCHANGED <<rfix, results_status, queue_file, dpc>>

\* lines 613, 626: nothing left to scrape
RunSkipScraping ==
    /\ rpc = "run_phase2"
    /\ ~ScrapingNeeded(state, queue_file)
    /\ state' = [state EXCEPT !.phase = "completed"]
    /\ state_file' = state'
    /\ results_status' = "completed"
    /\ rpc' = "off"
    /\ issued' = Append(issued, DEv("print_summary", ""))
    /\ UNCHANGED <<rexit, queue_file, dpc>>

\* lines 386-387: the pre-entity check finds the flag set
LoopShutdown ==
    /\ pc = "loop"
    /\ i < Total
    /\ shutdown_requested
    /\ raised' = "GracefulExit"
    /\ pc' = "finally_cleanup"
    /\ UNCHANGED <<channels, env, runs_allowed, kills, start_index, disk, state,
                   queue_data, progress, i, stats, channels_since_restart,
                   attempts, channel_data, browser, run, log, outcomes, prev,
                   skipped_by_scraper, rpc, shutdown_requested, results_status,
                   invocations, entry, queue_file, disc_vars>>

\* lines 381-383: like StartRunScraping, but start_browser raises; the
\* exception leaves the try block through the finally block
StartRunScrapingFails ==
    /\ pc \in {"idle", "done", "killed"}
    /\ run < runs_allowed
    /\ rpc = "call_scraping"
    /\ faults > 0
    /\ faults' = faults - 1
    /\ rpc' = "in_scraping"
    /\ raised' = "Exception"
    /\ run' = run + 1
    /\ state' = [state EXCEPT !.scraping_status = "running"]
    /\ state_file' = state'
    /\ queue_data' = qfile
    /\ progress' = pfile
    /\ start_index' = StartIndex(qfile)
    /\ i' = start_index'
    /\ stats' = NoStats
    /\ channels_since_restart' = 0
    /\ attempts' = 0
    /\ channel_data' = NoHandle
    /\ pc' = "finally_cleanup"
    /\ log' = <<>>
    /\ prev' = IF run = 0 THEN prev
               ELSE [valid |-> TRUE, killed |-> (pc = "killed"),
                     outcomes |-> outcomes, stats |-> stats,
                     retryable |-> IF pc = "done" THEN Retryable ELSE {}]
    /\ outcomes' = NoOutcomes
    /\ UNCHANGED <<channels, env, runs_allowed, kills, qfile, pfile, artifacts,
                   browser, skipped_by_scraper, shutdown_requested,
                   results_status, invocations, entry, queue_file, queries,
                   found, dpc, attempt, should_resume, dprogress, dfiles, qi,
                   issued>>

\* scraper.start_browser raises after a cleanup: the exception leaves the loop
\* through the finally block
RestartFails(at) ==
    /\ rpc = "in_scraping"
    /\ pc = at
    /\ faults > 0
    /\ faults' = faults - 1
    /\ raised' = "Exception"
    /\ pc' = "finally_cleanup"
    /\ UNCHANGED <<channels, env, runs_allowed, kills, start_index, disk, state,
                   queue_data, progress, i, stats, channels_since_restart,
                   attempts, channel_data, browser, run, log, outcomes, prev,
                   skipped_by_scraper, rpc, shutdown_requested, results_status,
                   invocations, entry, queue_file, queries, found, dpc, attempt,
                   should_resume, dprogress, dfiles, qi, issued>>

\* lines 421-423 raise
IntervalStartFails == RestartFails("interval_start")

\* lines 479-480 raise
RateLimitStartFails == RestartFails("ratelimit_start")

\* lines 500-502 raise
BreakerStartFails == RestartFails("breaker_start")

\* lines 620-626: run_scraping returned its stats
RunScrapingReturned ==
    /\ rpc = "in_scraping"
    /\ pc = "done"
    /\ raised = "none"
    /\ state' = [state EXCEPT !.phase = "completed"]
    /\ state_file' = state'
    /\ results_status' = "completed"
    /\ rpc' = "off"
    /\ issued' = Append(issued, DEv("print_summary", ""))
    /\ UNCHANGED <<rexit, queue_file, dpc>>

\* a run() that treats the interrupted stage as finished
RunScrapingInterruptedCompletes ==
    /\ rpc = "in_scraping"
    /\ pc = "done"
    /\ raised = "GracefulExit"
    /\ state' = [state EXCEPT !.phase = "completed"]
    /\ state_file' = state'
    /\ results_status' = "completed"
    /\ rpc' = "off"
    /\ UNCHANGED <<rfix, queue_file, dpc>>

\* lines 632-636, an Exception raised by run_scraping
RunScrapingError ==
    /\ rpc = "in_scraping"
    /\ pc = "done"
    /\ raised = "Exception"
    /\ results_status' = "error"
    /\ rpc' = "off"
    /\ issued' = Append(issued, DEv("print_summary", ""))
    /\ UNCHANGED <<rexit, state, state_file, queue_file, dpc>>

\* lines 628-630, GracefulExit raised by run_scraping
RunScrapingInterrupted ==
    /\ rpc = "in_scraping"
    /\ pc = "done"
    /\ raised = "GracefulExit"
    /\ results_status' = "interrupted"
    /\ rpc' = "off"
    /\ issued' = Append(issued, DEv("print_summary", ""))
    /\ UNCHANGED <<rexit, state, state_file, queue_file, dpc>>

NextRun ==
    \/ Next
    \/ NextDiscovery
    \/ LoopShutdown
    \/ RunStart
    \/ RunEnterDiscovery
    \/ RunUseExisting
    \/ RunDiscoveryReturned
    \/ RunDiscoveryFailed
    \/ RunDiscoveryInterrupted
    \/ RunEnterScraping
    \/ RunSkipScraping
    \/ StartRunScrapingFails
    \/ IntervalStartFails
    \/ RateLimitStartFails
    \/ BreakerStartFails
    \/ RunScrapingReturned
    \/ RunScrapingInterrupted
    \/ RunScrapingError

SpecRun == InitRun /\ [][NextRun]_vars

----------------------------------------------------------------------------
(* _calculate_cooldown applied to successive attempt numbers: the backoff    *)
(* discover_channels resuming from a progress file                           *)

\* every list of 1..n queries
AnyQueryLists(n) ==
    UNION {[1..k -> Range(AllQueries)] : k \in 1..n}

\* a progress file an earlier session left: some queries completed, a cursor
\* anywhere up to one past the end of the list
ProgressFiles(qs) ==
    {[FreshDiscoveryProgress EXCEPT !.path = SessionFile(0),
                                    !.completed_queries = c,
                                    !.current_query_index = x] :
        c \in SUBSET Range(AllQueries), x \in 0..(Len(qs) + 1)}

\* discover_and_create_queue(resume=True, progress_file=<file>) (lines 797-818):
\* the browser is started and discover_channels is called with a loadable file
InitResume ==
    /\ ScrapingIdleOn([InitialState EXCEPT
                          !.discovery_progress_file = SessionFile(0)])
    /\ queries \in AnyQueryLists(MaxResumeQueries)
    /\ found \in Findings(queries)
    /\ faults \in {0, 1}
    /\ env = AllOutcomes
    /\ channels = <<>>
    /\ runs_allowed = 1
    /\ rpc = "discover_and_create_queue"
    /\ dpc = "dc_init"
    /\ attempt = 1
    /\ should_resume = TRUE
    /\ dprogress = FreshDiscoveryProgress
    /\ \E f \in ProgressFiles(queries) :
          /\ dfiles = SavedDiscovery(NoFiles, f)
          /\ entry = [NoEntry EXCEPT !.completed_queries = f.completed_queries]
    /\ qi = 0
    /\ issued = <<>>
    /\ shutdown_requested = FALSE
    /\ raised = "none"
    /\ results_status = "none"
    /\ invocations = 1
    /\ queue_file = "None"

NextResume ==
    \/ DcInit
    \/ DcSkipCompleted
    \/ DcQueryStart
    \/ DcQueryOk
    \/ DcQueryRaises
    \/ DcDelay
    \/ DcDelayRaises
    \/ DcFinish

SpecResume == InitResume /\ [][NextResume]_vars

(***************************************************************************)
(* sleeps of one entity or stage that fails attempt after attempt            *)

InitCooldown ==
    /\ channels = SubSeq(AllIds, 1, 1)
    /\ env = AllOutcomes
    /\ runs_allowed = 1
    /\ qfile = FreshQueue
    /\ pfile = FreshProgress
    /\ artifacts = {}
    /\ state_file = InitialState
    /\ state = InitialState
    /\ queue_data = FreshQueue
    /\ progress = FreshProgress
    /\ pc = "cooldown"
    /\ start_index = 0
    /\ i = 0
    /\ stats = NoStats
    /\ channels_since_restart = 0
    \* the attempts already recorded when the failures start being observed
    /\ attempts \in 0..(MaxCooldownAttempt - 1)
    /\ channel_data = NoHandle
    /\ browser = "closed"
    /\ run = 0
    /\ kills = 0
    /\ log = <<>>
    /\ outcomes = NoOutcomes
    /\ prev = NoPrev
    /\ skipped_by_scraper = {}
    /\ ScrapeOnly

\* cooldown = self._calculate_cooldown(attempts + 1); await asyncio.sleep(cooldown)
\* for one more failed attempt (lines 476-478, 318-320)
BackoffSleep ==
    /\ pc = "cooldown"
    /\ attempts < MaxCooldownAttempt
    /\ attempts' = attempts + 1
    /\ log' = Append(log, Ev("sleep", _calculate_cooldown(attempts + 1)))
    /\ UNCHANGED <<fixed, disk, state, queue_data, progress, pc, i, stats,
                   channels_since_restart, channel_data, browser, run, outcomes,
                   prev, skipped_by_scraper>>

NextCooldown == BackoffSleep

SpecCooldown == InitCooldown /\ [][NextCooldown]_vars

----------------------------------------------------------------------------
(* Properties *)

TypeOK ==
    /\ pc \in {"idle", "loop", "scrape", "interval_cleanup", "interval_sleep",
               "interval_start", "save_channel_data", "success_update",
               "success_save_progress", "success_save_queue",
               "skipped_save_queue", "notfound_save_queue",
               "notfound_save_progress", "ratelimit_cleanup", "ratelimit_sleep",
               "ratelimit_start", "error_save_queue", "error_save_progress",
               "breaker_cleanup", "breaker_sleep", "breaker_start",
               "finally_cleanup", "finally_save_queue", "finally_save_progress",
               "finally_status", "done", "killed"}
    /\ i \in 0..Total
    /\ start_index \in 0..Total
    /\ queue_data.current_index \in 0..Total
    /\ qfile.current_index \in 0..Total
    /\ browser \in {"open", "closed"}
    /\ run \in 0..runs_allowed

\* the entity whose handling has just ended: the loop is back at its head
\* and position i (the code's index i - 1) was given to scrape_channel
Handled(kinds) == pc = "loop" /\ i >= 1 /\ outcomes[i] \in kinds

\* C1: after each entity handled by run_scraping, whatever its outcome
\* (Success, NotFound, RateLimited, TransientError), the queue file and the
\* global progress file have both been rewritten before the next entity starts.
C1_CheckpointAfterEveryEntity ==
    Handled({"Success", "NotFound", "RateLimited", "Error"})
        => {"save_queue_file", "save_progress"} \subseteq Ops(log)

\* positions given to scrape_channel so far in this invocation
Invoked == {p \in 1..Total : outcomes[p] # "none"}

\* positions the previous, killed invocation had given to scrape_channel
\* (the call in flight at the kill included) with an outcome not in kinds
AttemptedBeforeKill(kinds) ==
    IF prev.valid /\ prev.killed
    THEN {p \in 1..Total : prev.outcomes[p] \notin kinds \cup {"none"}}
    ELSE {}

SecondRunDone == pc = "done" /\ prev.valid /\ ~prev.killed

CursorAssigned ==
    \/ pc = "success_update"
    \/ pc = "scrape" /\ pc' \in {"skipped_save_queue", "notfound_save_queue",
                                 "error_save_queue"}

\* C4: in every step of run_scraping current_index never decreases, in memory
\* and in the queue file; every assignment sets it to i + 1 for a loop index
\* i >= the start_index loaded at stage start, and to more than it was.
C4_MonotonicCursor ==
    [][/\ queue_data'.current_index >= queue_data.current_index
       /\ qfile'.current_index >= qfile.current_index
       /\ (CursorAssigned \/ queue_data'.current_index # queue_data.current_index)
            => /\ queue_data'.current_index = i + 1
               /\ i >= start_index
               /\ queue_data'.current_index > queue_data.current_index]_vars

\* a resumed run has moved the cursor past the value it loaded and saved it
C4_Witness ==
    /\ run >= 2
    /\ start_index > 0
    /\ queue_data.current_index > start_index + 1
    /\ qfile.current_index = queue_data.current_index

\* the identifiers at the queue positions below q's current_index
BelowCursor(q) == {channels[p] : p \in 1..Min(q.current_index, Total)}

\* C5 (as claimed): in every queue state reachable during run_scraping, in
\* memory or on disk, every identifier at a position below current_index is
\* in the queue's completed list or in the queue's failed map.
C5_BelowCursorSettled ==
    \A q \in {queue_data, qfile} :
        BelowCursor(q) \subseteq Range(q.completed) \cup DOMAIN q.failed

\* C5 (amended): every identifier at a position below current_index is in the
\* queue's completed list, in the queue's failed map, completed according to
\* is_channel_completed (global progress or output artifact), or one for which
\* scrape_channel raised ChannelSkippedException.
C5_BelowCursorSettledOrSkipped ==
    \A q \in {queue_data, qfile} :
        \A id \in BelowCursor(q) :
            \/ id \in Range(q.completed) \cup DOMAIN q.failed
            \/ is_channel_completed(id, progress, artifacts)
            \/ id \in skipped_by_scraper

\* the saved cursor stands past a failed entity, a scraped one and one that
\* was skipped as already completed
C5_Witness ==
    /\ qfile.current_index >= 3
    /\ BelowCursor(qfile) \cap DOMAIN qfile.failed # {}
    /\ BelowCursor(qfile) \cap Range(qfile.completed) # {}
    /\ BelowCursor(qfile) \ (Range(qfile.completed) \cup DOMAIN qfile.failed) # {}

\* the loop is about to handle an entity
AtLoopHead == pc = "loop" /\ i < Total

\* the entity is in the global progress completed_channels, in memory or on
\* disk, or its output artifact exists
AlreadyScraped(id) ==
    \/ id \in Range(progress.completed_channels)
    \/ id \in Range(pfile.completed_channels)
    \/ SafeId(id) \in artifacts

\* C6: scrape_channel is never invoked for an entity that is in the global
\* progress completed_channels or whose output artifact exists; the loop
\* counts such an entity as skipped and goes on to the next one.
C6_CompletedNeverScraped ==
    /\ [](pc = "scrape" => ~AlreadyScraped(Current))
    /\ [][(AtLoopHead /\ AlreadyScraped(Current))
             => /\ stats' = [stats EXCEPT !.skipped = @ + 1]
                /\ outcomes' = outcomes
                /\ pc' = "loop"
                /\ i' = i + 1]_vars

\* an entity was skipped, without a call, because its artifact exists although
\* the progress file does not list it
C6_Witness ==
    /\ pc = "loop"
    /\ i >= 1
    /\ outcomes[i] = "none"
    /\ stats.skipped > 0
    /\ SafeId(channels[i]) \in artifacts
    /\ channels[i] \notin Range(progress.completed_channels)

\* the entity's failure record, in memory or in the queue file, has used up
\* the retry budget
Exhausted(id) ==
    \E q \in {queue_data, qfile} :
        id \in DOMAIN q.failed /\ q.failed[id].attempts >= max_channel_retries

\* C7: an entity whose queue failure record has attempts >= max_channel_retries
\* is never passed to scrape_channel, in this run or a later one, and each time
\* the loop meets it the run's failed count grows by one.
C7_ExhaustedNeverScraped ==
    /\ [](pc = "scrape" => ~Exhausted(Current))
    /\ [][(AtLoopHead /\ Exhausted(Current))
             => /\ stats' = [stats EXCEPT !.failed = @ + 1]
                /\ outcomes' = outcomes
                /\ pc' = "loop"
                /\ i' = i + 1]_vars

\* a later run met an entity with three recorded attempts and counted it as
\* failed without a call
C7_Witness ==
    /\ pc = "loop"
    /\ i >= 1
    /\ outcomes[i] = "none"
    /\ Exhausted(channels[i])
    /\ prev.valid
    /\ prev.outcomes[i] = "RateLimited"
    /\ stats.failed > 0

\* C8: an entity that a run left RateLimited with attempts below
\* max_channel_retries is passed to scrape_channel by the next invocation of
\* run_scraping on the same queue file (unless it has been completed in the
\* meantime), whatever the outcomes of the entities after it.
C8_RateLimitedReattempted ==
    SecondRunDone =>
        \A p \in prev.retryable :
            \/ outcomes[p] # "none"
            \/ is_channel_completed(channels[p], progress, artifacts)

\* the operations logged for the entity from the scrape_channel call onwards
\* (a periodic restart may precede the call)
RECURSIVE SinceScrape(_)
SinceScrape(l) ==
    IF l = <<>> THEN <<>>
    ELSE IF Head(l).op = "scrape_channel" THEN l
    ELSE SinceScrape(Tail(l))

\* the operations of the RateLimited handler for an entity whose failure
\* record holds n attempts after recording
RateLimitedOps(n) ==
    <<Ev("scrape_channel", 0), Ev("cleanup", 0),
      Ev("sleep", _calculate_cooldown(n)), Ev("start_browser", 0)>>

RateLimitPcs == {"ratelimit_cleanup", "ratelimit_sleep", "ratelimit_start"}

\* C9: on a RateLimited outcome for the entity at index i, run_scraping adds
\* one to the entity's attempts, leaves current_index unchanged, closes the
\* session, sleeps cooldown(n) with n the attempts after recording, opens a new
\* session, and does not attempt the entity again in the same run; all of it
\* before the next entity is attempted.
C9_RateLimitedHandling ==
    /\ [](Handled({"RateLimited"}) =>
            /\ FailedAttempts(queue_data, channels[i]) = attempts + 1
            /\ SinceScrape(log) = RateLimitedOps(FailedAttempts(queue_data, channels[i]))
            /\ browser = "open")
    /\ [][/\ (pc = "scrape" /\ pc' = "ratelimit_cleanup") =>
                /\ FailedAttempts(queue_data', Current)
                       = FailedAttempts(queue_data, Current) + 1
                /\ queue_data'.current_index = queue_data.current_index
          /\ pc \in RateLimitPcs =>
                /\ queue_data' = queue_data
                /\ qfile' = qfile
          /\ \A p \in 1..Total :
                (outcomes[p] = "RateLimited" /\ run' = run) =>
                    /\ outcomes'[p] = "RateLimited"
                    /\ pc' = "scrape" => i' + 1 # p]_vars

\* a second RateLimited outcome of the same entity has been handled and
\* another entity is next
C9_Witness ==
    /\ Handled({"RateLimited"})
    /\ attempts = 1
    /\ i < Total

\* positions current_index-n .. current_index-1 of q are all in the failed
\* map and the position before them, if any, is not
TrailingFailures(q, n) ==
    /\ q.current_index >= n
    /\ q.current_index <= Total
    /\ \A k \in (q.current_index - n + 1)..q.current_index :
          channels[k] \in DOMAIN q.failed
    /\ q.current_index > n => channels[q.current_index - n] \notin DOMAIN q.failed

\* C10: for every current_index >= 5, when the five positions before
\* current_index are all in the failed map (and the one before them is not),
\* _check_consecutive_failures returns 5, and after a TransientError the
\* browser session is restarted before the next entity is attempted.
C10_BreakerAtFive ==
    TrailingFailures(queue_data, BreakerThreshold) =>
        /\ _check_consecutive_failures(queue_data) = BreakerThreshold
        /\ Handled({"Error"}) => "start_browser" \in Ops(SinceScrape(log))

\* C11: an entity whose outcome was TransientError is attempted again, in the
\* same or a later invocation on the same queue file, until it succeeds or its
\* failure record reaches max_channel_retries: when the next invocation has
\* run to completion, every entity the previous one left with a TransientError,
\* attempts below the budget and no artifact has been given to scrape_channel.
C11_TransientErrorReattempted ==
    SecondRunDone =>
        \A p \in 1..Total :
            (/\ prev.outcomes[p] = "Error"
             /\ FailedAttempts(queue_data, channels[p]) < max_channel_retries
             /\ ~is_channel_completed(channels[p], progress, artifacts))
                => outcomes[p] # "none"

\* C12: after a Success outcome for the entity at index i, its identifier is
\* in the queue's completed list and in the global progress completed_channels,
\* it has no failure record in the queue's failed map nor in the global
\* progress failed_channels, and current_index equals i + 1 (in memory and in
\* the files).
C12_SuccessBookkeeping ==
    Handled({"Success"}) =>
        /\ \A q \in {queue_data, qfile} :
              /\ channels[i] \in Range(q.completed)
              /\ channels[i] \notin DOMAIN q.failed
              /\ q.current_index = i
        /\ \A g \in {progress, pfile} :
              /\ channels[i] \in Range(g.completed_channels)
              /\ channels[i] \notin DOMAIN g.failed_channels

\* the attempt number the k-th logged backoff sleep was computed for
AttemptOf(k) == attempts - Len(log) + k

\* C13: _calculate_cooldown(attempt) = min(base * multiplier^(attempt-1),
\* max_cooldown) for every attempt >= 1; with base 60, multiplier 2 and
\* max_cooldown 600 that is 60, 120, 240, 480, 600 for attempts 1..5 and 600
\* for every larger attempt.
C13_CooldownValues ==
    pc = "cooldown" =>
        \A k \in 1..Len(log) :
            /\ AttemptOf(k) >= 1
            /\ log[k].arg = Min(cooldown_after_failure
                                  * cooldown_multiplier ^ (AttemptOf(k) - 1),
                                max_cooldown)
            /\ log[k].arg = IF AttemptOf(k) <= 5
                            THEN <<60, 120, 240, 480, 600>>[AttemptOf(k)]
                            ELSE 600

\* the backoff sleeps of attempts 1, 2, ... up to past the clamp were computed
C13_Witness ==
    /\ pc = "cooldown"
    /\ Len(log) >= 7
    /\ AttemptOf(1) = 1

\* discovery has produced a queue file, according to st
DiscoveryDone(st) ==
    st.discovery_status = "completed" /\ st.discovery_queue_files # <<>>

\* C14: the Scraping Stage is entered (phase 'scraping', scraping session
\* opened, scrape_channel invoked) only when discovery yielded a queue file;
\* when run_discovery returns no queue file, run() ends without opening a
\* scraping session and the persisted phase is neither 'scraping' nor
\* 'completed'.
C14_ScrapingOnlyAfterDiscovery ==
    /\ rpc \in {"call_scraping", "in_scraping"} =>
          /\ queue_file # "None"
          /\ DiscoveryDone(state_file)
    /\ (state_file.phase \in {"scraping", "completed"} \/ browser = "open"
            \/ run > 0)
          => DiscoveryDone(state_file)
    /\ (rpc = "off" /\ results_status = "failed") =>
          /\ state_file.phase = "discovery"
          /\ browser = "closed"
          /\ run = 0

\* run() has ended because every discovery attempt of the budget failed
C14_Witness ==
    /\ rpc = "off"
    /\ results_status = "failed"
    /\ state_file.discovery_attempts = max_discovery_retries
    /\ issued # <<>>

\* the process found discovery completed with a recorded queue file
EntryCompleted == entry.discovery_status = "completed" /\ entry.queue_files # <<>>

\* run() has returned
RunEnded == rpc = "off" /\ results_status # "none"

\* C15 (as claimed): when the persisted state has discovery.status 'completed'
\* with a recorded queue file, a later run() issues no search query, opens no
\* discovery browser session, whatever the persisted phase, and calls
\* run_scraping on discovery.queue_files[0].
C15_ResumeSkipsDiscovery ==
    EntryCompleted =>
        /\ \A k \in DOMAIN issued : issued[k].op \notin {"query", "start_browser"}
        /\ RunEnded => (run = entry.runs + 1 /\ queue_file = entry.queue_files[1])

\* C15 (amended): ... and calls run_scraping on discovery.queue_files[0],
\* except when the persisted phase is 'completed' and scraping.status is
\* 'completed': then run() calls run_scraping not at all.
C15_ResumeSkipsDiscoveryUnlessDone ==
    EntryCompleted =>
        /\ \A k \in DOMAIN issued : issued[k].op \notin {"query", "start_browser"}
        /\ RunEnded =>
              IF entry.phase = "completed" /\ entry.scraping_status = "completed"
              THEN run = entry.runs
              ELSE run = entry.runs + 1 /\ queue_file = entry.queue_files[1]

\* a run() that found phase 'discovery' with discovery completed (left by a
\* --discovery-only process) has scraped the recorded queue file
C15_Witness ==
    /\ EntryCompleted
    /\ entry.phase = "discovery"
    /\ RunEnded
    /\ run = entry.runs + 1
    /\ queue_file = entry.queue_files[1]
    /\ stats.success > 0

FinallyPcs == {"finally_cleanup", "finally_save_queue", "finally_save_progress",
               "finally_status", "done"}

\* C16: if the shutdown flag is set before the pre-entity check for entity k,
\* scrape_channel is invoked neither for k nor for a later entity in that run,
\* the queue file and the progress file are written with the in-memory state
\* before run_scraping exits, and run() returns 'interrupted' without setting
\* phase to 'completed'.
C16_GracefulShutdown ==
    /\ []((raised = "GracefulExit" /\ rpc = "in_scraping") =>
            /\ pc \in FinallyPcs
            /\ pc = "done" => /\ qfile = queue_data
                              /\ pfile = progress
                              /\ state_file.scraping_status = "interrupted")
    /\ []((rpc = "off" /\ raised = "GracefulExit" /\ run > entry.runs) =>
            /\ results_status = "interrupted"
            /\ state_file.phase = "scraping")
    /\ [][(rpc = "in_scraping" /\ pc = "loop" /\ i < Total /\ shutdown_requested)
             => /\ raised' = "GracefulExit"
                /\ pc' = "finally_cleanup"
                /\ outcomes' = outcomes]_vars

\* run() has returned 'interrupted' from the middle of the queue
C16_Witness ==
    /\ rpc = "off"
    /\ raised = "GracefulExit"
    /\ run > entry.runs
    /\ results_status = "interrupted"
    /\ qfile.current_index > 0
    /\ qfile.current_index < Total

\* C17: during the discovery phase the shutdown flag is checked before each
\* query: no search query is started once shutdown has been requested.
C17_NoQueryAfterShutdown ==
    \A k \in DOMAIN issued :
        issued[k].op = "query" => ~issued[k].after_shutdown

\* C18: when a discovery attempt fails with a stage-fatal error after some
\* queries were completed and persisted, the next attempt of the same
\* run_discovery call does not issue a query again that the progress file of
\* the failed attempt lists as completed.
C18_RetryResumesProgress ==
    \A j, k \in DOMAIN issued :
        (/\ issued[j].op = "sleep"
         /\ issued[k].op = "query"
         /\ issued[k].attempt = issued[j].attempt + 1
         /\ SessionFile(issued[j].attempt) \in DOMAIN dfiles)
            => issued[k].query \notin
                   dfiles[SessionFile(issued[j].attempt)].completed_queries

\* the process found the attempts of the budget used up and no queue file
EntryExhausted ==
    /\ rpc = "discovery_only"
    /\ entry.attempts >= max_discovery_retries
    /\ ~EntryCompleted

\* C19: across all invocations that share one state file the number of
\* discovery attempts started never exceeds max_discovery_retries, the
\* persisted discovery.attempts never decreases, and once the budget is used up
\* without a queue file run_discovery returns no queue file without starting
\* another attempt.
C19_AttemptBudget ==
    /\ [](/\ state_file.stat_discovery_attempts <= max_discovery_retries
          /\ state_file.discovery_attempts <= max_discovery_retries)
    /\ [](EntryExhausted =>
            /\ issued = <<>>
            /\ state_file.stat_discovery_attempts = max_discovery_retries
            /\ state_file.discovery_attempts = entry.attempts
            /\ dpc \in {"rd_entry", "rd_loop", "returned"}
            /\ dpc = "returned" => (queue_file = "None" /\ raised = "none"))
    /\ [][state_file'.discovery_attempts >= state_file.discovery_attempts]_vars

\* a second process has found the budget used up and has returned
C19_Witness ==
    /\ EntryExhausted
    /\ invocations >= 2
    /\ dpc = "returned"
    /\ queue_file = "None"

\* C20: in discover_channels, after the query at index i has been attempted,
\* current_query_index equals i + 1 in memory and in the progress file,
\* whether the query succeeded or raised.
C20_CursorAfterEveryQuery ==
    dpc = "dc_delay" =>
        /\ dprogress.current_query_index = qi + 1
        /\ dprogress.path \in DOMAIN dfiles
        /\ dfiles[dprogress.path].current_query_index = qi + 1

\* C21: discover_channels called with resume on a loadable progress file whose
\* completed_queries contains query Q never issues Q to the search, wherever Q
\* stands in the query list and whatever current_query_index the file holds.
C21_CompletedQueryNeverIssued ==
    \A k \in DOMAIN issued :
        issued[k].op = "query" => issued[k].query \notin entry.completed_queries

\* the call has ended after skipping a completed query that stands at or after
\* the loaded cursor and after issuing another query
C21_Witness ==
    /\ rpc = "discover_and_create_queue"
    /\ dpc = "rd_channels"
    /\ issued # <<>>
    /\ \E k \in 1..Len(queries) :
          /\ queries[k] \in entry.completed_queries
          /\ k > 1
          /\ queries[1] \notin entry.completed_queries
          /\ issued[1].query = queries[1]

\* C22: when run_scraping raises a stage-fatal error (opening or restarting
\* the browser session fails), run() runs the Scraping Stage again, up to
\* max_scrape_retries times, before it ends the run with an error.
C22_ScrapingStageRetried ==
    (RunEnded /\ results_status = "error") =>
        run - entry.runs = max_scrape_retries

\* C23: in every persisted orchestration state, phase is one of discovery,
\* scraping, completed, and discovery.status and scraping.status are each one
\* of pending, running, completed, failed.
C23_StatusDomains ==
    /\ state_file.phase \in {"discovery", "scraping", "completed"}
    /\ state_file.discovery_status \in {"pending", "running", "completed", "failed"}
    /\ state_file.scraping_status \in {"pending", "running", "completed", "failed"}

\* the last start_browser / cleanup of the discovery stage in this process
LastBrowserOp(l) ==
    LET ks == {k \in DOMAIN l : l[k].op \in {"start_browser", "cleanup"}}
    IN  IF ks = {} THEN "cleanup"
        ELSE l[CHOOSE k \in ks : \A j \in ks : j <= k].op

DiscoverySessionOpen == LastBrowserOp(issued) = "start_browser"

\* this step opens the scraping session
ScrapingSessionOpens ==
    /\ browser' = "open"
    /\ run' # run \/ pc \in {"interval_start", "ratelimit_start", "breaker_start"}

\* this step opens the discovery session
DiscoverySessionOpens ==
    /\ Len(issued') = Len(issued) + 1
    /\ issued'[Len(issued')].op = "start_browser"

\* C24: at every point of a run at most one browser session is open: every
\* session open is preceded by the close of the previous session, the
\* discovery session is closed before the scraping session is opened, and
\* scrape_channel is invoked only while a session is open.
C24_OneBrowserSession ==
    /\ [](~(DiscoverySessionOpen /\ browser = "open"))
    /\ [](pc = "scrape" => browser = "open")
    /\ [](rpc = "off" => (~DiscoverySessionOpen /\ browser = "closed"))
    /\ [][(ScrapingSessionOpens \/ DiscoverySessionOpens)
             => (browser = "closed" /\ ~DiscoverySessionOpen)]_vars

\* scrape_channel is about to be called after a restart of the scraping
\* session, in a run() that had opened and closed a discovery session
C24_Witness ==
    /\ rpc = "in_scraping"
    /\ pc = "scrape"
    /\ browser = "open"
    /\ \E k \in DOMAIN log : log[k].op = "start_browser"
    /\ \E k \in DOMAIN issued : issued[k].op = "cleanup"

\* C25: within run_scraping no browser session performs more than
\* browser_restart_interval successful scrapes: the count is 0 at every
\* session open and grows by one with every success and not otherwise,
\* scrape_channel is called only with the count below the interval, and when
\* the count has reached the interval the session is closed and a new one
\* opened before the next scrape_channel call.
C25_RestartInterval ==
    /\ [](pc = "scrape" =>
            (channels_since_restart < RestartInterval /\ browser = "open"))
    /\ [][ScrapingSessionOpens => channels_since_restart' = 0]_vars
    /\ [][channels_since_restart' # channels_since_restart =>
             IF stats'.success = stats.success + 1
             THEN channels_since_restart' = channels_since_restart + 1
             ELSE channels_since_restart' = 0 /\ ScrapingSessionOpens]_vars
    /\ [][(stats'.success = stats.success + 1 /\ run' = run)
             => channels_since_restart' = channels_since_restart + 1]_vars
    /\ [][(pc = "loop" /\ pc' \in {"scrape", "interval_cleanup"}) =>
             ((pc' = "interval_cleanup")
                 <=> (channels_since_restart >= RestartInterval))]_vars
    /\ [][pc = "interval_cleanup" => pc' = "interval_sleep" /\ browser' = "closed"]_vars

\* scrape_channel is about to be called in a session opened by the periodic
\* restart
C25_Witness ==
    /\ pc = "scrape"
    /\ stats.success >= RestartInterval
    /\ channels_since_restart = 0
    /\ Len(log) = 3
    /\ log[3].op = "start_browser"
    /\ log[2] = Ev("sleep", RestartSleep)

\* C26: every call of run() ends by emitting the summary before it returns,
\* on every exit: normal completion, interruption, orchestration error, and
\* discovery failure with the retries exhausted.
C26_SummaryOnEveryExit ==
    RunEnded =>
        /\ issued # <<>>
        /\ issued[Len(issued)].op = "print_summary"

\* the queue ["a","b","c"] was scraped once from current_index 0 with nothing
\* completed or failed before: Success for a, NotFound for b, RateLimited for c
Scenario ==
    /\ run = 1
    /\ channels = SubSeq(AllIds, 1, 3)
    /\ outcomes[1] = "Success"
    /\ outcomes[2] = "NotFound"
    /\ outcomes[3] = "RateLimited"

\* the operations of the last entity: the scrape and one forced restart
OneForcedRestart ==
    /\ [k \in DOMAIN log |-> log[k].op] =
          <<"scrape_channel", "cleanup", "sleep", "start_browser">>
    /\ state.browser_restarts = 0

\* C27 (as claimed): after one pass over ["a","b","c"] with Success, NotFound,
\* RateLimited: completed = ["a"], failed holds exactly b with attempts 1,
\* current_index = 2, one forced browser restart, stats success = 1,
\* failed = 1, skipped = 0.
C27_EndToEnd ==
    /\ (Scenario /\ pc = "loop") => OneForcedRestart
    /\ (Scenario /\ pc = "done") =>
          /\ qfile.completed = <<AllIds[1]>>
          /\ DOMAIN qfile.failed = {AllIds[2]}
          /\ qfile.failed[AllIds[2]].attempts = 1
          /\ qfile.current_index = 2
          /\ stats = [success |-> 1, failed |-> 1, skipped |-> 0]

\* C27 (amended): ... failed holds b and c, each with attempts 1 ...
C27_EndToEndBothFailed ==
    /\ (Scenario /\ pc = "loop") => OneForcedRestart
    /\ (Scenario /\ pc = "done") =>
          /\ qfile.completed = <<AllIds[1]>>
          /\ DOMAIN qfile.failed = {AllIds[2], AllIds[3]}
          /\ qfile.failed[AllIds[2]].attempts = 1
          /\ qfile.failed[AllIds[3]].attempts = 1
          /\ qfile.current_index = 2
          /\ stats = [success |-> 1, failed |-> 1, skipped |-> 0]

\* the pass of the scenario has ended
C27_Witness == Scenario /\ pc = "done" /\ qfile = queue_data

\* C28: whenever a discovery attempt n ends without a queue file (it raised,
\* or it found no channels) and attempt n + 1 is started in the same
\* run_discovery call, a sleep of cooldown(n) has happened between the two.
C28_CooldownBetweenAttempts ==
    \A j, k \in DOMAIN issued :
        (/\ issued[j].op \in {"start_browser", "cleanup"}
         /\ issued[k].op \in {"start_browser", "cleanup"}
         /\ issued[k].attempt = issued[j].attempt + 1)
            => \E s \in DOMAIN issued :
                  /\ s < k
                  /\ issued[s].op = "sleep"
                  /\ issued[s].attempt = issued[j].attempt
                  /\ issued[s].query = _calculate_cooldown(issued[j].attempt)

\* C29: at every point where the process may be killed during run_scraping,
\* starting from consistent files, the persisted files are ordered: every
\* identifier in the queue file's completed list is in the progress file's
\* completed_channels, and an identifier enters the progress file's
\* completed_channels only while it is the channel being processed and the
\* artifact of its scrape is already on disk; artifacts are never removed.
C29_PersistedOrder ==
    /\ [](Range(qfile.completed) \subseteq Range(pfile.completed_channels))
    /\ [][\A x \in Range(pfile'.completed_channels)
                      \ Range(pfile.completed_channels) :
              /\ x = Current
              /\ ArtifactName(channel_data) \in artifacts]_vars
    /\ [][artifacts \subseteq artifacts']_vars

C29_Witness ==
    /\ pc = "killed"
    /\ Range(pfile.completed_channels) # {}
    /\ Range(qfile.completed) # Range(pfile.completed_channels)

\* the iteration that just ended ran the circuit breaker's restart after its
\* scrape_channel call: cleanup, sleep(30), start_browser
BreakerRestarted ==
    \E c, s, b \in DOMAIN log :
        /\ c < s /\ s < b
        /\ log[c].op = "cleanup"
        /\ log[s] = Ev("sleep", BreakerSleep)
        /\ log[b].op = "start_browser"
        /\ \A m \in DOMAIN log : log[m].op = "scrape_channel" => m < c

\* queue_data as it was when the handler of the entity before channels[i]
\* called _check_consecutive_failures: the cursor one lower and the failure
\* of channels[i] not yet recorded
QueueBefore(q) ==
    [q EXCEPT !.current_index = i - 1,
              !.failed = IF q.failed[channels[i]].attempts = 1
                         THEN [x \in DOMAIN q.failed \ {channels[i]} |-> q.failed[x]]
                         ELSE [q.failed EXCEPT ![channels[i]] =
                                  [attempts |-> @.attempts - 1]]]

\* the entities at positions i-1 and i were given to scrape_channel one right
\* after the other, both raised a TransientError, and the breaker's count was
\* at the threshold or above after the first of them
ErrorAfterTrip ==
    /\ Handled({"Error"})
    /\ i >= 2
    /\ outcomes[i - 1] = "Error"
    /\ BreakerTripped(QueueBefore(queue_data))

\* C30: a forced circuit-breaker restart does not reset the consecutive-failure
\* count: once _check_consecutive_failures has returned 5 or more after a
\* TransientError, a TransientError of the entity right after it (no
\* successful or skipped entity in between) finds the count at 5 or more again
\* and is followed by another browser restart with its 30-second cooldown.
C30_BreakerKeepsTripping ==
    ErrorAfterTrip =>
        /\ BreakerTripped(queue_data)
        /\ BreakerRestarted

C30_Witness ==
    /\ ErrorAfterTrip
    /\ BreakerRestarted
    /\ state.browser_restarts >= 2

====
